---- MODULE Spec2Model ----
(***************************************************************************)
(* Route planner of backend/main.py: the A* search over the implicit       *)
(* lat/lon grid (a_star_route), its edge-cost model (inside_hazard,        *)
(* piracy_penalty_nm), the bucketed piracy index (PiracyIndex) and the     *)
(* lazily loaded process-wide piracy store (ensure_piracy_loaded).         *)
(*                                                                         *)
(* Numbers.  The source computes in floats; the model computes in          *)
(* integers:                                                               *)
(*   - an angle is a whole number of half degrees (Deg(45) = 90), so that  *)
(*     the 89.5 degree pole limit, the 1.0 degree index cell and the half  *)
(*     steps that make round() round to even are all exact;                *)
(*   - a distance is a whole number of nautical miles, the value of        *)
(*     haversine_km(..) * KM_TO_NM rounded up (rounding up keeps the       *)
(*     triangle inequality of the great-circle distance);                  *)
(*   - a cost (g, f, a penalty) is a whole number of quarter nautical      *)
(*     miles (Nm(200) = 800), so that the piecewise-linear piracy penalty  *)
(*     scaled by a weight in halves stays exact.                           *)
(***************************************************************************)
EXTENDS Integers, Sequences, FiniteSets, TLC

\* An angle in degrees as a number of half degrees.
Deg(x) == 2 * x

\* A distance or penalty in nautical miles as a number of quarter miles.
Nm(x) == 4 * x

\* Python's None, and an Optional value: <<>> is None, <<x>> is x.
None == <<>>

Abs(x) == IF x < 0 THEN -x ELSE x

Min2(a, b) == IF a <= b THEN a ELSE b

Max2(a, b) == IF a >= b THEN a ELSE b

SetMin(S) == CHOOSE x \in S : \A y \in S : x <= y

(***************************************************************************)
(* Geo helpers                                                             *)
(***************************************************************************)

\* haversine_km(lat1, lon1, lat2, lon2) * KM_TO_NM in whole nautical miles
\* (rounded up), tabulated from the source's formula at the points the model
\* uses.  The formula depends on the two latitudes and on the absolute
\* longitude difference modulo 360 degrees only; the key is
\* <<smaller lat, larger lat, longitude difference in 0..180 degrees>>.
HaversineTable ==
  <<-180, -180, 0>> :> 0 @@ <<-180, -180, 90>> :> 0 @@ <<-180, -180, 180>> :> 0 @@ <<-180, -180, 270>> :> 0
  @@ <<-180, -180, 360>> :> 0 @@ <<-180, -90, 0>> :> 2702 @@ <<-180, -90, 90>> :> 2702 @@ <<-180, -90, 180>> :> 2702
  @@ <<-180, -90, 270>> :> 2702 @@ <<-180, -90, 360>> :> 2702 @@ <<-180, 0, 0>> :> 5404 @@ <<-180, 0, 90>> :> 5404
  @@ <<-180, 0, 180>> :> 5404 @@ <<-180, 0, 270>> :> 5404 @@ <<-180, 0, 360>> :> 5404 @@ <<-180, 90, 0>> :> 8106
  @@ <<-180, 90, 90>> :> 8106 @@ <<-180, 90, 180>> :> 8106 @@ <<-180, 90, 270>> :> 8106 @@ <<-180, 90, 360>> :> 8106
  @@ <<-180, 180, 0>> :> 10808 @@ <<-180, 180, 90>> :> 10808 @@ <<-180, 180, 180>> :> 10808 @@ <<-180, 180, 270>> :> 10808
  @@ <<-180, 180, 360>> :> 10808 @@ <<-90, -90, 0>> :> 0 @@ <<-90, -90, 90>> :> 1886 @@ <<-90, -90, 180>> :> 3603
  @@ <<-90, -90, 270>> :> 4899 @@ <<-90, -90, 360>> :> 5404 @@ <<-90, 0, 0>> :> 2702 @@ <<-90, 0, 90>> :> 3603
  @@ <<-90, 0, 180>> :> 5404 @@ <<-90, 0, 270>> :> 7205 @@ <<-90, 0, 360>> :> 8106 @@ <<-90, 90, 0>> :> 5404
  @@ <<-90, 90, 90>> :> 5910 @@ <<-90, 90, 180>> :> 7205 @@ <<-90, 90, 270>> :> 8923 @@ <<-90, 90, 360>> :> 10808
  @@ <<-90, 180, 0>> :> 8106 @@ <<-90, 180, 90>> :> 8106 @@ <<-90, 180, 180>> :> 8106 @@ <<-90, 180, 270>> :> 8106
  @@ <<-90, 180, 360>> :> 8106 @@ <<-3, 0, 3>> :> 128 @@ <<-3, 1, 2>> :> 135 @@ <<-3, 3, 5>> :> 235
  @@ <<0, 0, 0>> :> 0 @@ <<0, 0, 4>> :> 121 @@ <<0, 0, 90>> :> 2702 @@ <<0, 0, 180>> :> 5404
  @@ <<0, 0, 270>> :> 8106 @@ <<0, 0, 360>> :> 10808 @@ <<0, 1, 1>> :> 43 @@ <<0, 1, 5>> :> 154
  @@ <<0, 3, 2>> :> 109 @@ <<0, 3, 3>> :> 128 @@ <<0, 4, 4>> :> 170 @@ <<0, 20, 20>> :> 847
  @@ <<0, 20, 70>> :> 2175 @@ <<0, 20, 160>> :> 4813 @@ <<0, 20, 200>> :> 5995 @@ <<0, 20, 250>> :> 7469
  @@ <<0, 20, 290>> :> 8633 @@ <<0, 20, 340>> :> 9961 @@ <<0, 90, 0>> :> 2702 @@ <<0, 90, 90>> :> 3603
  @@ <<0, 90, 180>> :> 5404 @@ <<0, 90, 270>> :> 7205 @@ <<0, 90, 360>> :> 8106 @@ <<0, 135, 0>> :> 4053
  @@ <<0, 135, 90>> :> 4462 @@ <<0, 135, 180>> :> 5404 @@ <<0, 135, 270>> :> 6347 @@ <<0, 135, 360>> :> 6755
  @@ <<0, 180, 0>> :> 5404 @@ <<0, 180, 90>> :> 5404 @@ <<0, 180, 180>> :> 5404 @@ <<0, 180, 270>> :> 5404
  @@ <<0, 180, 360>> :> 5404 @@ <<1, 1, 2>> :> 61 @@ <<1, 3, 1>> :> 68 @@ <<1, 3, 4>> :> 135
  @@ <<1, 4, 5>> :> 176 @@ <<3, 3, 1>> :> 31 @@ <<3, 4, 2>> :> 68 @@ <<20, 20, 0>> :> 0
  @@ <<20, 135, 70>> :> 3724 @@ <<20, 180, 20>> :> 4804 @@ <<90, 90, 0>> :> 0 @@ <<90, 90, 90>> :> 1886
  @@ <<90, 90, 180>> :> 3603 @@ <<90, 90, 270>> :> 4899 @@ <<90, 90, 360>> :> 5404 @@ <<90, 180, 0>> :> 2702
  @@ <<90, 180, 90>> :> 2702 @@ <<90, 180, 180>> :> 2702 @@ <<90, 180, 270>> :> 2702 @@ <<90, 180, 360>> :> 2702
  @@ <<135, 135, 0>> :> 0 @@ <<135, 180, 90>> :> 1351 @@ <<180, 180, 0>> :> 0 @@ <<180, 180, 90>> :> 0
  @@ <<180, 180, 180>> :> 0 @@ <<180, 180, 270>> :> 0 @@ <<180, 180, 360>> :> 0

LonDiff(lon1, lon2) ==
  LET m == Abs(lon1 - lon2) % Deg(360)
  IN  Min2(m, Deg(360) - m)

haversine_nm(lat1, lon1, lat2, lon2) ==
  HaversineTable[<<Min2(lat1, lat2), Max2(lat1, lat2), LonDiff(lon1, lon2)>>]

\* interpolate_geodesic(lat1, lon1, lat2, lon2, n): the great-circle polyline
\* is kept as the call that produces it (its end points and segment count);
\* the degenerate call (zero angular separation) returns the single point.
interpolate_geodesic(lat1, lon1, lat2, lon2, n) ==
  IF haversine_nm(lat1, lon1, lat2, lon2) = 0
  THEN [kind |-> "point", from |-> <<lat1, lon1>>, to |-> <<lat1, lon1>>, n |-> 0]
  ELSE [kind |-> "great_circle", from |-> <<lat1, lon1>>, to |-> <<lat2, lon2>>, n |-> n]

(***************************************************************************)
(* Piracy index                                                            *)
(***************************************************************************)

\* PiracyIndex(cell_deg=1.0): the cell size of the process-wide index.
CellDeg == 1

\* nearest_nm's default max_rings.
DefaultMaxRings == 3

\* PiracyIndex._key: floor((lat + 90.0) / cell), floor((lon + 180.0) / cell).
\* (\div is the floor division on a positive divisor.)
PiracyIndex_key(lat, lon) ==
  <<(lat + Deg(90)) \div Deg(CellDeg), (lon + Deg(180)) \div Deg(CellDeg)>>

\* grid.get(cell): the indices bucketed in a cell, None (here <<>>) if absent.
GridGet(grid, cell) == IF cell \in DOMAIN grid THEN grid[cell] ELSE <<>>

\* RingCells with "or" for "and" in the test that skips the interior: only
\* the four corners of a ring are left.
RingCellsCorners(base_key, ring) ==
  { <<base_key[1] + dy, base_key[2] + dx>> :
      <<dy, dx>> \in { o \in (-ring..ring) \X (-ring..ring) :
                         ~(ring > 0 /\ (Abs(o[1]) < ring \/ Abs(o[2]) < ring)) } }

\* The cells nearest_nm visits in one ring: dy, dx in -ring..ring, skipping
\* the interior when ring > 0.
RingCells(base_key, ring) ==
  { <<base_key[1] + dy, base_key[2] + dx>> :
      <<dy, dx>> \in { o \in (-ring..ring) \X (-ring..ring) :
                         ~(ring > 0 /\ Abs(o[1]) < ring /\ Abs(o[2]) < ring) } }

\* The distances nearest_nm computes in one ring (best_nm is their minimum).
RingDistances(points, grid, lat, lon, ring) ==
  { haversine_nm(lat, lon, points[i][1], points[i][2]) :
      i \in UNION { { GridGet(grid, cell)[k] : k \in 1..Len(GridGet(grid, cell)) } :
                    cell \in RingCells(PiracyIndex_key(lat, lon), ring) } }

RECURSIVE NearestFromRing(_, _, _, _, _, _)
NearestFromRing(points, grid, lat, lon, ring, max_rings) ==
  IF ring > max_rings THEN None
  ELSE LET ds == RingDistances(points, grid, lat, lon, ring)
       IN  IF ds # {} THEN <<SetMin(ds)>>
           ELSE NearestFromRing(points, grid, lat, lon, ring + 1, max_rings)

\* PiracyIndex.nearest_nm(lat, lon, max_rings): Optional distance in nm.
nearest_nm(points, grid, lat, lon, max_rings) ==
  IF points = <<>> THEN None
  ELSE NearestFromRing(points, grid, lat, lon, 0, max_rings)

(***************************************************************************)
(* The dataset on disk and PiracyIndex.load_geojson                        *)
(*                                                                         *)
(* A file is [disk, gj]: disk is "ok", "missing" (open raises) or          *)
(* "unparsable" (json.load raises); gj is the parsed document              *)
(* [type, features].  A feature's geometry is [type, has_coordinates,      *)
(* coordinates]; a Point's coordinates are one position, a MultiPoint's a  *)
(* sequence of positions, a position a sequence of numbers <<lon, lat>>    *)
(* (a position of another length makes the unpacking raise).               *)
(***************************************************************************)

\* The document ensure_piracy_loaded caches when the load raised.
EmptyFC == [type |-> "FeatureCollection", features |-> <<>>]

\* add(lat, lon, props): idx = len(pts); pts.append(..);
\* grid.setdefault(key, []).append(idx).  The index kept in the grid is the
\* position in pts (Python counts from 0, a TLA+ sequence from 1).
LoadAdd(pts, grid, lat, lon) ==
  LET idx == Len(pts) + 1
      key == PiracyIndex_key(lat, lon)
  IN  [pts  |-> Append(pts, <<lat, lon>>),
       grid |-> [c \in DOMAIN grid \cup {key} |->
                   IF c = key THEN Append(GridGet(grid, c), idx) ELSE grid[c]]]

\* One step of load_geojson's loops, at feature fi and (inside a MultiPoint)
\* position ci, with the local list pts and the index's grid: the step's
\* outcome ("more", "end" of the loops, or "raise") and the state after it.
LoadItem(gj, fi, ci, pts, grid) ==
  LET same == [fi |-> fi, ci |-> ci, pts |-> pts, grid |-> grid]
  IN
  IF gj.type # "FeatureCollection" \/ fi > Len(gj.features)
  THEN [status |-> "end"] @@ same
  ELSE
    LET geom == gj.features[fi].geometry
        next == [fi |-> fi + 1, ci |-> 1, pts |-> pts, grid |-> grid]
    IN
    CASE geom.type = "Point" ->
           IF ~geom.has_coordinates
           THEN [status |-> "more"] @@ next          \* [None, None]: skipped
           ELSE IF Len(geom.coordinates) < 2
           THEN [status |-> "raise"] @@ same         \* lon, lat = [..][:2]
           ELSE LET a == LoadAdd(pts, grid, geom.coordinates[2], geom.coordinates[1])
                IN  [status |-> "more", fi |-> fi + 1, ci |-> 1,
                     pts |-> a.pts, grid |-> a.grid]
      [] geom.type = "MultiPoint" ->
           IF ~geom.has_coordinates \/ ci > Len(geom.coordinates)
           THEN [status |-> "more"] @@ next
           ELSE IF Len(geom.coordinates[ci]) # 2
           THEN [status |-> "raise"] @@ same         \* for lon, lat in ..
           ELSE LET a == LoadAdd(pts, grid, geom.coordinates[ci][2],
                                 geom.coordinates[ci][1])
                IN  [status |-> "more", fi |-> fi, ci |-> ci + 1,
                     pts |-> a.pts, grid |-> a.grid]
      [] OTHER -> [status |-> "more"] @@ next

\* load_geojson run to its end by one caller alone: the loops from (fi, ci).
RECURSIVE LoadRun(_, _, _, _, _)
LoadRun(gj, fi, ci, pts, grid) ==
  LET s == LoadItem(gj, fi, ci, pts, grid)
  IN  IF s.status = "more" THEN LoadRun(gj, s.fi, s.ci, s.pts, s.grid) ELSE s

\* Caught for a handler written "except OSError".
CaughtOSError(exc) == exc \in { "FileNotFoundError" }

\* except Exception: every exception raised inside the try is caught; exc is
\* its class (FileNotFoundError from open, JSONDecodeError from json.load,
\* ValueError from unpacking a position).
Caught(exc) == exc \in { "FileNotFoundError", "JSONDecodeError", "ValueError" }

\* _load_piracy_from_disk(): the exception it raises, None if it returns.
DiskError(f) ==
  CASE f.disk = "missing" -> <<"FileNotFoundError">>
    [] f.disk = "unparsable" -> <<"JSONDecodeError">>
    [] OTHER -> None

\* ensure_piracy_loaded() run by one caller alone, as a_star_route calls it
\* through piracy_penalty_nm: the store [points, grid, cache] after the call.
ensure_piracy_loaded(file, store) ==
  IF store.cache # None THEN store
  ELSE IF DiskError(file) # None
  THEN [store EXCEPT !.cache = <<EmptyFC>>]
  ELSE LET run == LoadRun(file.gj, 1, 1, <<>>, store.grid)
       IN  IF run.status = "raise"
           THEN [points |-> store.points, grid |-> run.grid, cache |-> <<EmptyFC>>]
           ELSE [points |-> run.pts, grid |-> run.grid, cache |-> <<file.gj>>]

(***************************************************************************)
(* Cost model                                                              *)
(***************************************************************************)

\* inside_hazard(lat, lon, hazards): d_km * KM_TO_NM <= h.radius_nm for some h.
\* (The distance is rounded up to a whole mile and the radius is a whole
\* number of miles, so the comparison is the source's.)
inside_hazard(lat, lon, hazards) ==
  \E k \in 1..Len(hazards) :
     haversine_nm(lat, lon, hazards[k].lat, hazards[k].lon) <= hazards[k].radius_nm

\* max(0.0, min(1.0, weight)), the weight counted in halves.
ClampWeight(weight2) == Max2(0, Min2(2, weight2))

\* The piecewise-linear shape of piracy_penalty_nm for a distance d in nm,
\* in quarter miles: 500 * (1 - d/100) up to 100 nm, 100 * (1 - (d-100)/200)
\* up to 300 nm, 0 beyond.
PenaltyShape(d) ==
  IF d <= 100 THEN Nm(500) - (Nm(500) * d) \div 100
  ELSE IF d <= 300 THEN Nm(100) - (Nm(100) * (d - 100)) \div 200
  ELSE 0

\* piracy_penalty_nm(lat, lon, weight) against a store already ensured:
\* the penalty in quarter miles; weight2 is the weight in halves.
piracy_penalty_nm(store, lat, lon, weight2) ==
  IF weight2 <= 0 THEN 0
  ELSE LET d == nearest_nm(store.points, store.grid, lat, lon, DefaultMaxRings)
       IN  IF d = None THEN 0
           ELSE (PenaltyShape(d[1]) * ClampWeight(weight2)) \div 2

(***************************************************************************)
(* State                                                                   *)
(***************************************************************************)
VARIABLES
  file,          \* the dataset at PIRACY_PATH (the environment; it does not change)
  store,         \* piracy_index.points, piracy_index.grid, piracy_geojson_cache
  pc,            \* a_star_route: "idle", "loop" (at the while), "done" (returned)
  req,           \* the arguments of the a_star_route call
  start, goal,   \* the snapped nodes
  openq,         \* the heap, as the set of its entries <<f, g, node, parent>>
  came, bestg,   \* the predecessor map and the best-cost map
  visited,       \* the pop counter
  cur, g,        \* the node and cost of the last pop
  last,          \* what the last iteration did: "stale", "goal", "budget", "expand"
  result,        \* the returned tuple [coords, dist_nm, visited, ok]
  th             \* the concurrent callers of ensure_piracy_loaded

vars == <<file, store, pc, req, start, goal, openq, came, bestg, visited,
          cur, g, last, result, th>>

routeVars == <<pc, req, start, goal, openq, came, bestg, visited, cur, g, last, result>>

(***************************************************************************)
(* a_star_route                                                            *)
(***************************************************************************)

\* Python's round(): to the nearest integer, a tie to the even one.
\* RoundHalfEven(n, d) is round(n / d) for d > 0.
RoundHalfEven(n, d) ==
  LET q == n \div d
      r == n % d
  IN  IF 2 * r < d THEN q
      ELSE IF 2 * r > d THEN q + 1
      ELSE IF q % 2 = 0 THEN q ELSE q + 1

\* snap(x, s) = round(x / s) * s
snap(x, s) == RoundHalfEven(x, s) * s

\* dirs, as <<dy, dx>> in the order of the source.
dirs(step) ==
  << <<0, step>>, <<0, -step>>, <<step, 0>>, <<-step, 0>>,
     <<step, step>>, <<step, -step>>, <<-step, step>>, <<-step, -step>> >>

\* 89.5 degrees, the latitude beyond which a neighbour is discarded.
PoleLimit == Deg(90) - 1

\* Lines 265-271: the neighbour of cur in direction dir, None when it is
\* discarded (nb[0] < -89.5 or nb[0] > 89.5); its longitude wrapped by
\* "if lon < -180: lon += 360" and "if lon > 180: lon -= 360".
WrapLon(lon) ==
  LET l1 == IF lon < -Deg(180) THEN lon + Deg(360) ELSE lon
  IN  IF l1 > Deg(180) THEN l1 - Deg(360) ELSE l1

Neighbour(n, dir) ==
  LET lat == n[1] + dir[1]
  IN  IF lat < -PoleLimit \/ lat > PoleLimit THEN None
      ELSE <<lat, WrapLon(n[2] + dir[2])>>

\* h without the conversion to nautical miles: the distance in kilometres.
h_km(n, gl) == (Nm(haversine_nm(n[1], n[2], gl[1], gl[2])) * 1852) \div 1000

\* h(n) = haversine_km(n, goal) * KM_TO_NM, in quarter miles.
h(n, gl) == Nm(haversine_nm(n[1], n[2], gl[1], gl[2]))

\* p_demo = penalty_nm if inside_hazard(nb, hazards) else 0.0
DemoPenalty(r, nb) ==
  IF inside_hazard(nb[1], nb[2], r.hazards) THEN Nm(r.penalty_nm) ELSE 0

\* cost = seg_nm + p_demo + p_piracy for the edge into nb, in quarter miles.
EdgeCost(r, st, n, nb) ==
  Nm(haversine_nm(n[1], n[2], nb[1], nb[2]))
  + DemoPenalty(r, nb)
  + piracy_penalty_nm(st, nb[1], nb[2], r.piracy_weight)

\* The order of the heap: Python compares the entries (f, g, node, parent) as
\* tuples.  (Only the start's entry has parent None, and it is alone in the
\* heap, so None is never compared.)
TupleLess(a, b) ==
  \E i \in 1..Len(a) : a[i] < b[i] /\ \A j \in 1..(i - 1) : a[j] = b[j]

Flat(e) == <<e[1], e[2], e[3][1], e[3][2]>> \o e[4]

EntryLess(e1, e2) == TupleLess(Flat(e1), Flat(e2))

\* heappop: the least entry.
HeapMin(q) == CHOOSE e \in q : \A e2 \in q \ {e} : EntryLess(e, e2)

\* Lines 280-283: the update for the neighbour nb reached with cost ng from
\* n, on the maps and heap so far.
Relax(gl, n, nb, ng, acc) ==
  IF nb \notin DOMAIN acc.bestg \/ ng < acc.bestg[nb]
  THEN [bestg |-> (nb :> ng) @@ acc.bestg,
        openq |-> acc.openq \cup { <<ng + h(nb, gl), ng, nb, n>> }]
  ELSE acc

\* The for loop over dirs from direction i on, for the popped node n with
\* cost gn: the maps and the heap after it.
RECURSIVE Expand(_, _, _, _, _, _, _)
Expand(i, r, st, gl, n, gn, acc) ==
  IF i > Len(dirs(r.step)) THEN acc
  ELSE
    LET nb == Neighbour(n, dirs(r.step)[i])
    IN  IF nb = None THEN Expand(i + 1, r, st, gl, n, gn, acc)
        ELSE Expand(i + 1, r, st, gl, n, gn,
                    Relax(gl, n, nb, gn + EdgeCost(r, st, n, nb), acc))

\* Whether the for loop calls ensure_piracy_loaded: piracy_penalty_nm does,
\* for a weight > 0, at the first neighbour that is not discarded.
CallsEnsure(r, n) ==
  /\ r.piracy_weight > 0
  /\ \E i \in 1..Len(dirs(r.step)) : Neighbour(n, dirs(r.step)[i]) # None

\* Lines 291-296: the path from the start to n along the predecessor links.
RECURSIVE PathTo(_, _)
PathTo(cm, n) == IF n = None THEN <<>> ELSE Append(PathTo(cm, cm[n]), n)

\* PathNm that starts the sum one pair late.
RECURSIVE PathNmSkipFirst(_, _)
PathNmSkipFirst(path, i) ==
  IF i + 1 > Len(path) THEN 0
  ELSE haversine_nm(path[i][1], path[i][2], path[i + 1][1], path[i + 1][2])
       + PathNmSkipFirst(path, i + 1)

\* Lines 298-302: total_nm, the sum of the haversine distances along path.
RECURSIVE PathNm(_, _)
PathNm(path, i) ==
  IF i > Len(path) THEN 0
  ELSE haversine_nm(path[i - 1][1], path[i - 1][2], path[i][1], path[i][2])
       + PathNm(path, i + 1)

\* Reconstruct whose fallback interpolates between the snapped nodes.
ReconstructFromNodes(r, gl, cm, vis) ==
  IF gl \notin DOMAIN cm
  THEN [coords  |-> interpolate_geodesic(snap(r.o.lat, r.step), snap(r.o.lon, r.step),
                                         gl[1], gl[2], 128),
        dist_nm |-> haversine_nm(r.o.lat, r.o.lon, r.d.lat, r.d.lon),
        visited |-> vis, ok |-> FALSE]
  ELSE LET path == PathTo(cm, gl)
       IN  [coords  |-> [i \in 1..Len(path) |-> <<path[i][2], path[i][1]>>],
            dist_nm |-> PathNm(path, 2),
            visited |-> vis, ok |-> TRUE]

\* Lines 285-304: the returned tuple.
Reconstruct(r, gl, cm, vis) ==
  IF gl \notin DOMAIN cm
  THEN [coords  |-> interpolate_geodesic(r.o.lat, r.o.lon, r.d.lat, r.d.lon, 128),
        dist_nm |-> haversine_nm(r.o.lat, r.o.lon, r.d.lat, r.d.lon),
        visited |-> vis, ok |-> FALSE]
  ELSE LET path == PathTo(cm, gl)
       IN  [coords  |-> [i \in 1..Len(path) |-> <<path[i][2], path[i][1]>>],
            dist_nm |-> PathNm(path, 2),
            visited |-> vis, ok |-> TRUE]

(***************************************************************************)
(* Inputs                                                                  *)
(***************************************************************************)

\* AvoidRequest.max_nodes' default.
DefaultMaxNodes == 200000

\* The largest visit budget tried besides the default.
MaxBudget == 10

\* The number of concurrent callers of ensure_piracy_loaded.
NThreads == 2

Threads == 1..NThreads

Waypoint(lat, lon) == [lat |-> lat, lon |-> lon]

HazardCircle(lat, lon, radius_nm) == [lat |-> lat, lon |-> lon, radius_nm |-> radius_nm]

\* Origins: on the equator; west of the antimeridian; on the 180 degree
\* meridian; at 67.5 degrees north (1.5 steps: snapped to 90 degrees).
Origins ==
  { Waypoint(0, 0), Waypoint(0, -Deg(90)), Waypoint(0, Deg(135)),
    Waypoint(0, Deg(180)), Waypoint(Deg(135) \div 2, Deg(45)) }

\* Destinations: two steps east of (0, 0); ten degrees off (0, 0), which is
\* snapped to it; east of the antimeridian; on the 180 degree meridian; the
\* north pole, which no move reaches; the node inside the hazard circle.
Destinations ==
  { Waypoint(0, Deg(90)), Waypoint(Deg(10), Deg(10)), Waypoint(0, -Deg(135)),
    Waypoint(0, Deg(180)), Waypoint(Deg(90), 0), Waypoint(0, Deg(45)) }

Steps == { Deg(45) }

\* AvoidRequest.hazards' and penalty_nm's defaults.
NoHazards == <<>>

DefaultPenaltyNm == 200

\* Hazard circles: none; 50 nm around the node (0, 45); a negative radius.
HazardSets ==
  { NoHazards, << HazardCircle(0, Deg(45), 50) >>, << HazardCircle(0, Deg(45), -50) >> }

Penalties == { -3000, DefaultPenaltyNm, 6000 }

Budgets == 0..MaxBudget \cup { DefaultMaxNodes }

\* piracy_weight in halves: -0.5, 0 (the default), 0.5, 1.5.
Weights == { -1, 0, 1, 3 }

\* The requests: every origin, destination and budget with the defaults
\* of the cost model; and every cost model on a few routes.
Requests ==
  [ o : Origins, d : Destinations, step : Steps, hazards : {NoHazards},
    penalty_nm : {DefaultPenaltyNm}, max_nodes : Budgets, piracy_weight : {0} ]
  \cup
  [ o : { Waypoint(0, 0), Waypoint(0, Deg(180)) },
    d : { Waypoint(0, Deg(90)), Waypoint(0, Deg(45)), Waypoint(Deg(90), 0) },
    step : Steps, hazards : HazardSets, penalty_nm : Penalties,
    max_nodes : { DefaultMaxNodes }, piracy_weight : Weights ]

Point(coordinates) ==
  [geometry |-> [type |-> "Point", has_coordinates |-> TRUE, coordinates |-> coordinates]]

MultiPoint(coordinates) ==
  [geometry |-> [type |-> "MultiPoint", has_coordinates |-> TRUE, coordinates |-> coordinates]]

NoCoordinates(type) ==
  [geometry |-> [type |-> type, has_coordinates |-> FALSE, coordinates |-> <<>>]]

FeatureCollection(features) == [type |-> "FeatureCollection", features |-> features]

\* The datasets: positions are <<lon, lat>> in half degrees.  Near the node
\* (0, 45): (1.5, 46.5) is one cell away diagonally, (0, 47) two cells east
\* and nearer; (0.5, 45.5) is in the node's own cell.
Files ==
  { [disk |-> "missing", gj |-> EmptyFC],
    [disk |-> "unparsable", gj |-> EmptyFC],
    [disk |-> "ok", gj |-> [type |-> "Feature", features |-> <<>>]],
    [disk |-> "ok",
     gj |-> FeatureCollection(<< Point(<<93, 3>>), NoCoordinates("Polygon"),
                                 NoCoordinates("Point"), Point(<<94, 0, 7>>) >>)],
    [disk |-> "ok",
     gj |-> FeatureCollection(<< MultiPoint(<< <<91, 1>>, <<87, -3>> >>),
                                 Point(<<94, 4>>) >>)],
    [disk |-> "ok",
     gj |-> FeatureCollection(<< Point(<<91, 1>>),
                                 MultiPoint(<< <<93, 3>>, <<94>> >>),
                                 Point(<<94, 0>>) >>)],
    [disk |-> "ok",
     gj |-> FeatureCollection(<< Point(<<93, 3>>), Point(<<94>>) >>)] }

\* The points nearest_nm is asked about, and the ring limits.
QueryPoints == { <<0, Deg(45)>>, <<1, 89>>, <<3, 92>>, <<0, 0>> }

QueryRings == 0..DefaultMaxRings

(***************************************************************************)
(* Actions of a_star_route                                                 *)
(***************************************************************************)

EmptyStore == [points |-> <<>>, grid |-> <<>>, cache |-> None]

IdleThread == [pc |-> "idle", pts |-> <<>>, fi |-> 1, ci |-> 1, res |-> None]

Init ==
  /\ file \in Files
  /\ store = EmptyStore
  /\ pc = "idle"
  /\ req = None
  /\ start = None
  /\ goal = None
  /\ openq = {}
  /\ came = <<>>
  /\ bestg = <<>>
  /\ visited = 0
  /\ cur = None
  /\ g = 0
  /\ last = "none"
  /\ result = None
  /\ th = [t \in Threads |-> IdleThread]

\* Lines 237-251: the call, up to the while loop.
Call(r) ==
  /\ pc = "idle"
  /\ LET s  == <<snap(r.o.lat, r.step), snap(r.o.lon, r.step)>>
         gl == <<snap(r.d.lat, r.step), snap(r.d.lon, r.step)>>
     IN  /\ start' = s
         /\ goal' = gl
         /\ openq' = { <<0 + h(s, gl), 0, s, None>> }
         /\ bestg' = (s :> 0)
  /\ req' = r
  /\ came' = <<>>
  /\ visited' = 0
  /\ pc' = "loop"
  /\ UNCHANGED <<file, store, cur, g, last, result, th>>

\* OverBudget off by one.
OverBudgetLate(v, max_nodes) == v > max_nodes + 1

\* Line 261: if visited > max_nodes: break
OverBudget(v, max_nodes) == v > max_nodes

\* Lines 253-304: one iteration of the while loop; when it leaves the loop
\* (a break, or the heap is empty at the next test), the reconstruction and
\* the return with it.
Iterate ==
  /\ pc = "loop"
  /\ \E e \in { HeapMin(openq) } :
       LET v      == visited + 1
           n      == e[3]
           stale  == n \in DOMAIN came
           cm     == IF stale THEN came ELSE (n :> e[4]) @@ came
           atGoal == ~stale /\ n = goal
           spent  == ~stale /\ ~atGoal /\ OverBudget(v, req.max_nodes)
           expand == ~stale /\ ~atGoal /\ ~spent
           popped == [bestg |-> bestg, openq |-> openq \ {e}]
       IN  \E st \in { IF expand /\ CallsEnsure(req, n)
                       THEN ensure_piracy_loaded(file, store) ELSE store } :
           \E ex \in { IF expand THEN Expand(1, req, st, goal, n, e[2], popped)
                       ELSE popped } :
             LET exits == atGoal \/ spent \/ ex.openq = {}
             IN  /\ visited' = v
                 /\ cur' = n
                 /\ g' = e[2]
                 /\ came' = cm
                 /\ store' = st
                 /\ bestg' = ex.bestg
                 /\ openq' = ex.openq
                 /\ last' = IF stale THEN "stale" ELSE IF atGoal THEN "goal"
                            ELSE IF spent THEN "budget" ELSE "expand"
                 /\ pc' = IF exits THEN "done" ELSE "loop"
                 /\ result' = IF exits THEN Reconstruct(req, goal, cm, v) ELSE result
  /\ UNCHANGED <<file, req, start, goal, th>>

Next == (\E r \in Requests : Call(r)) \/ Iterate

Spec == Init /\ [][Next]_vars

(***************************************************************************)
(* Concurrent callers of ensure_piracy_loaded (the endpoints run in the    *)
(* server's thread pool) and their nearest_nm queries.  A caller's pc:     *)
(*   "idle"      before the call                                           *)
(*   "read"      past "if piracy_geojson_cache is None", in the try        *)
(*   "load"      inside piracy_index.load_geojson(gj), at its loops        *)
(*   "setpoints" at "self.points = pts"                                    *)
(*   "setcache"  at "piracy_geojson_cache = gj"                            *)
(*   "except"    in the handler of "except Exception"                      *)
(*   "cached", "loaded", "failed": returned (the cache was set already,    *)
(*               the try ran to its end, the handler ran)                  *)
(*   "raised"    an exception left the function                            *)
(***************************************************************************)

Returned(t) == th[t].pc \in {"cached", "loaded", "failed"}

\* Line 167: if piracy_geojson_cache is None.
Check(t) ==
  /\ th[t].pc = "idle"
  /\ th' = [th EXCEPT ![t].pc = IF store.cache = None THEN "read" ELSE "cached"]
  /\ UNCHANGED <<file, store, routeVars>>

\* Line 169: gj = _load_piracy_from_disk(); then load_geojson starts with
\* an empty local list.
Read(t) ==
  /\ th[t].pc = "read"
  /\ th' = [th EXCEPT ![t] =
              IF DiskError(file) = None
              THEN [@ EXCEPT !.pc = "load", !.pts = <<>>, !.fi = 1, !.ci = 1]
              ELSE [@ EXCEPT !.pc = IF Caught(DiskError(file)[1]) THEN "except"
                                    ELSE "raised"]]
  /\ UNCHANGED <<file, store, routeVars>>

\* Lines 115-126: one step of load_geojson's loops (one add at most).
Load(t) ==
  /\ th[t].pc = "load"
  /\ LET s == LoadItem(file.gj, th[t].fi, th[t].ci, th[t].pts, store.grid)
     IN  /\ th' = [th EXCEPT ![t] =
                     [@ EXCEPT !.pc = CASE s.status = "more" -> "load"
                                        [] s.status = "end" -> "setpoints"
                                        [] OTHER -> IF Caught("ValueError") THEN "except"
                                                    ELSE "raised",
                               !.pts = s.pts, !.fi = s.fi, !.ci = s.ci]]
         /\ store' = [store EXCEPT !.grid = s.grid]
  /\ UNCHANGED <<file, routeVars>>

\* Line 128: self.points = pts.
SetPoints(t) ==
  /\ th[t].pc = "setpoints"
  /\ store' = [store EXCEPT !.points = th[t].pts]
  /\ th' = [th EXCEPT ![t].pc = "setcache"]
  /\ UNCHANGED <<file, routeVars>>

\* Line 171: piracy_geojson_cache = gj.
SetCache(t) ==
  /\ th[t].pc = "setcache"
  /\ store' = [store EXCEPT !.cache = <<file.gj>>]
  /\ th' = [th EXCEPT ![t].pc = "loaded"]
  /\ UNCHANGED <<file, routeVars>>

\* Line 174: piracy_geojson_cache = {"type": "FeatureCollection", "features": []}.
Except(t) ==
  /\ th[t].pc = "except"
  /\ store' = [store EXCEPT !.cache = <<EmptyFC>>]
  /\ th' = [th EXCEPT ![t].pc = "failed"]
  /\ UNCHANGED <<file, routeVars>>

\* A caller that has returned from ensure_piracy_loaded asks nearest_nm, as
\* piracy_penalty_nm does; res keeps <<lat, lon, max_rings, answer>>.
Query(t, q, rings) ==
  /\ Returned(t)
  /\ th' = [th EXCEPT ![t].res =
              <<q[1], q[2], rings, nearest_nm(store.points, store.grid, q[1], q[2], rings)>>]
  /\ UNCHANGED <<file, store, routeVars>>

NextStore ==
  \E t \in Threads :
     \/ Check(t) \/ Read(t) \/ Load(t) \/ SetPoints(t) \/ SetCache(t) \/ Except(t)
     \/ \E q \in QueryPoints, rings \in QueryRings : Query(t, q, rings)

SpecStore == Init /\ [][NextStore]_vars

(***************************************************************************)
(* Reference definitions for the properties                                *)
(***************************************************************************)

\* The store the edge costs of the current call are computed against: the
\* first expansion has ensured it when the weight is positive.
CostStore ==
  IF req.piracy_weight > 0 THEN ensure_piracy_loaded(file, store) ELSE store

\* The nodes reachable from the nodes S by grid moves.
GridGrow(S, step) ==
  S \cup ({ Neighbour(p[1], dirs(step)[p[2]]) : p \in S \X (1..8) } \ { None })

RECURSIVE GridClosure(_, _, _)
GridClosure(S, T, step) ==
  IF T = S THEN S ELSE GridClosure(T, GridGrow(T, step), step)

\* The edges <<from, to, cost>> of the grid graph over the nodes S.
GridEdges(r, st, S) ==
  { <<p[1], Neighbour(p[1], dirs(r.step)[p[2]]),
      EdgeCost(r, st, p[1], Neighbour(p[1], dirs(r.step)[p[2]]))>> :
      p \in { p \in S \X (1..8) : Neighbour(p[1], dirs(r.step)[p[2]]) # None } }

\* One round of relaxation of the costs d over the edges E.
RelaxRound(E, d) ==
  [ n \in DOMAIN d \cup { e[2] : e \in { e \in E : e[1] \in DOMAIN d } } |->
      SetMin( (IF n \in DOMAIN d THEN { d[n] } ELSE {})
              \cup { d[e[1]] + e[3] : e \in { e \in E : e[2] = n /\ e[1] \in DOMAIN d } } ) ]

RECURSIVE RelaxAll(_, _, _)
RelaxAll(E, d, d2) == IF d2 = d THEN d ELSE RelaxAll(E, d2, RelaxRound(E, d2))

\* The least cost of a grid path from s to every node reachable from it
\* (for an edge set without negative cycles).
MinCostFrom(E, s) == RelaxAll(E, (s :> 0), RelaxRound(E, (s :> 0)))

MinCost ==
  MinCostFrom(GridEdges(req, CostStore,
                        GridClosure({}, {start}, req.step)), start)

\* The cost g with which the search reached n: the sum of the edge costs
\* along n's predecessor links (ng = g + cost at each push).
RECURSIVE PathCost(_, _, _, _)
PathCost(r, st, cm, n) ==
  IF cm[n] = None THEN 0
  ELSE PathCost(r, st, cm, cm[n]) + EdgeCost(r, st, cm[n], n)

Finalizing == { "goal", "budget", "expand" }

(***************************************************************************)
(* Properties                                                              *)
(***************************************************************************)

\* Every node the search holds: in the heap, the best-cost map, the
\* predecessor map, and the snapped start and goal.
SearchNodes ==
  { e[3] : e \in openq } \cup DOMAIN bestg \cup DOMAIN came
  \cup (IF pc = "idle" THEN {} ELSE { start })

CreatedNodes == SearchNodes \cup (IF pc = "idle" THEN {} ELSE { goal })

GreatCircle(o, d) ==
  [kind |-> "great_circle", from |-> <<o.lat, o.lon>>, to |-> <<d.lat, d.lon>>, n |-> 128]

\* C1 as stated: a call with max_nodes = 0 whose origin and destination are
\* different points returns ok = FALSE, the great-circle interpolation
\* between the unsnapped origin and destination, and the visit counter.
C1_FallbackForDistinctPoints ==
  (pc = "done" /\ req.max_nodes = 0 /\ req.o # req.d)
    => /\ ~result.ok
       /\ result.coords = GreatCircle(req.o, req.d)
       /\ result.visited = visited

\* C1 amended: a call with max_nodes = 0 whose origin and destination snap
\* to different grid nodes returns ok = FALSE, the great-circle
\* interpolation between the unsnapped origin and destination, and the
\* visit counter, which is 1.
C1_FallbackForDistinctNodes ==
  (pc = "done" /\ req.max_nodes = 0 /\ start # goal)
    => /\ ~result.ok
       /\ result.coords = GreatCircle(req.o, req.d)
       /\ result.visited = visited
       /\ visited = 1

\* A fallback under max_nodes = 0 whose origin is not a grid node.
C1_Witness ==
  /\ pc = "done" /\ req.max_nodes = 0 /\ start # goal
  /\ ~result.ok
  /\ <<req.o.lat, req.o.lon>> # start

\* C2: with a non-negative penalty_nm, when the call returns, every
\* finalized node was finalized with the least cost of a grid path from the
\* start (the sum of base distance and penalties over its edges); so the
\* goal of a successful search was popped with g equal to that minimum.
\* The cost a node is finalized with is the g of its pop, which is the cost
\* along its predecessor links.
C2_FirstPopIsOptimal ==
  /\ (last \in Finalizing => g = PathCost(req, CostStore, came, cur))
  /\ (pc = "done" /\ req.penalty_nm >= 0)
       => \E mc \in { MinCost } :
            /\ \A n \in DOMAIN came : PathCost(req, CostStore, came, n) = mc[n]
            /\ (result.ok => g = mc[goal])

\* A successful search that paid a penalty on its way and left a costlier
\* entry for a finalized node in the heap.
C2_Witness ==
  /\ pc = "done" /\ result.ok /\ req.penalty_nm >= 0
  /\ Len(result.coords) >= 3
  /\ g > Nm(result.dist_nm)
  /\ \E e \in openq : e[3] \in DOMAIN came

\* C3 as stated: for max_nodes >= 1 every return reports
\* 1 <= visited <= max_nodes.
C3_VisitedWithinBudget ==
  (pc = "done" /\ req.max_nodes >= 1)
    => (1 <= result.visited /\ result.visited <= req.max_nodes)

\* C3 amended: for max_nodes >= 1 every return reports visited >= 1; at most
\* max_nodes + 1 nodes are ever finalized, one for each pop that was not
\* stale, and a node is expanded only while visited <= max_nodes.  (The
\* counter itself passes max_nodes: by the pop that trips the budget or
\* finalizes the goal, and by the stale pops before it.)
C3_FinalizedWithinBudget ==
  (pc # "idle" /\ req.max_nodes >= 1)
    => /\ pc = "done" => (result.visited >= 1 /\ result.visited = visited)
       /\ Cardinality(DOMAIN came) <= req.max_nodes + 1
       /\ Cardinality(DOMAIN came) <= visited
       /\ last = "expand" => visited <= req.max_nodes

\* A return on the budget after stale pops: visited is past max_nodes + 1.
C3_Witness ==
  /\ pc = "done" /\ req.max_nodes >= 1 /\ last = "budget"
  /\ result.visited > req.max_nodes + 1
  /\ Cardinality(DOMAIN came) = req.max_nodes + 1

\* C4: every edge the search evaluates costs at least its base distance,
\* for any penalty_nm, piracy_weight and hazard radius: after an expansion
\* of cur, for each neighbour that was not discarded.
C4_CostAtLeastDistance ==
  last = "expand"
    => \A i \in 1..8 :
         \E nb \in { Neighbour(cur, dirs(req.step)[i]) } :
            nb # None
              => EdgeCost(req, store, cur, nb)
                   >= Nm(haversine_nm(cur[1], cur[2], nb[1], nb[2]))

\* C5: under any interleaving of concurrent callers of
\* ensure_piracy_loaded, once piracy_geojson_cache is assigned neither the
\* cache nor piracy_index.points nor piracy_index.grid changes again.
C5_StoreFrozenOnceCached ==
  [][store.cache # None => store' = store]_vars

\* C6: when the load of the dataset fails (open or json.load raises, or
\* load_geojson raises after incidents were bucketed), no exception leaves
\* ensure_piracy_loaded, and from the failure on every nearest_nm query
\* answers None and every piracy_penalty_nm is 0 for any weight, as it is
\* for a caller that runs ensure_piracy_loaded after it.
C6_FailedLoadDegrades ==
  /\ \A t \in Threads : th[t].pc # "raised"
  /\ (\E t \in Threads : th[t].pc \in {"except", "failed"})
       => /\ \A q \in QueryPoints :
               /\ \A r \in QueryRings :
                    nearest_nm(store.points, store.grid, q[1], q[2], r) = None
               /\ \A w \in Weights :
                    /\ piracy_penalty_nm(store, q[1], q[2], w) = 0
                    /\ piracy_penalty_nm(ensure_piracy_loaded(file, store),
                                         q[1], q[2], w) = 0
          /\ \A t \in Threads : th[t].res # None => th[t].res[4] = None

\* A caller whose load raised part-way asked for a point whose home cell
\* holds a bucketed incident, and was answered None.
C6_Witness ==
  \E t \in Threads :
     /\ th[t].pc = "failed"
     /\ th[t].res # None
     /\ th[t].res[4] = None
     /\ GridGet(store.grid, PiracyIndex_key(th[t].res[1], th[t].res[2])) # <<>>

\* The Chebyshev distance between two cells.
Chebyshev(c1, c2) == Max2(Abs(c1[1] - c2[1]), Abs(c1[2] - c2[2]))

\* The indices bucketed in the cells at Chebyshev distance k from home.
BucketedAt(grid, home, k) ==
  UNION { { grid[c][j] : j \in 1..Len(grid[c]) } :
          c \in { c \in DOMAIN grid : Chebyshev(c, home) = k } }

\* The answer C7 describes for a query at (lat, lon).
NearestInSmallestRing(points, grid, lat, lon, max_rings) ==
  LET home == PiracyIndex_key(lat, lon)
      ks   == { k \in 0..max_rings : BucketedAt(grid, home, k) # {} }
  IN  IF points = <<>> \/ ks = {} THEN None
      ELSE << SetMin({ haversine_nm(lat, lon, points[i][1], points[i][2]) :
                         i \in BucketedAt(grid, home, SetMin(ks)) }) >>

\* C7: nearest_nm(lat, lon, max_rings) is the least distance over the
\* incidents bucketed in the cells of the smallest ring k in 0..max_rings
\* (the cells at Chebyshev distance exactly k from the home cell) that holds
\* an incident; None when the index holds no incidents or no such ring has
\* one.
C7_NearestInSmallestRing ==
  \A q \in QueryPoints : \A r \in QueryRings :
     nearest_nm(store.points, store.grid, q[1], q[2], r)
       = NearestInSmallestRing(store.points, store.grid, q[1], q[2], r)

\* A query answered from a ring beyond the home cell, on its side and not
\* at its corner, while a nearer incident lies within max_rings in a
\* farther ring; and a query answered None over a loaded index.
C7_Witness ==
  /\ \E t \in Threads :
        /\ th[t].res # None /\ th[t].res[4] # None
        /\ \E i \in 1..Len(store.points) :
              /\ haversine_nm(th[t].res[1], th[t].res[2],
                              store.points[i][1], store.points[i][2]) < th[t].res[4][1]
              /\ Chebyshev(PiracyIndex_key(store.points[i][1], store.points[i][2]),
                           PiracyIndex_key(th[t].res[1], th[t].res[2])) <= th[t].res[3]
  /\ \E t \in Threads :
        /\ th[t].res # None /\ th[t].res[4] = None /\ store.points # <<>>

\* b is reached from a by one of the 8 grid moves, the longitude counted
\* around the globe.
IsGridMove(a, b, step) ==
  LET dlat == Abs(b[1] - a[1])
      dlon == (b[2] - a[2]) % Deg(360)
  IN  /\ dlat \in {0, step}
      /\ dlon \in {0, step, Deg(360) - step}
      /\ ~(dlat = 0 /\ dlon = 0)

\* Following the predecessor links from n reaches the start s, whose link
\* is None, within k steps.
RECURSIVE LinksReach(_, _, _, _)
LinksReach(cm, n, s, k) ==
  IF cm[n] = None THEN n = s
  ELSE k > 0 /\ cm[n] \in DOMAIN cm /\ LinksReach(cm, cm[n], s, k - 1)

\* The sum of the base distances of the consecutive pairs of a returned
\* sequence of [lon, lat] coordinates.
RECURSIVE CoordsNm(_)
CoordsNm(coords) ==
  IF Len(coords) < 2 THEN 0
  ELSE haversine_nm(coords[1][2], coords[1][1], coords[2][2], coords[2][1])
       + CoordsNm(Tail(coords))

\* The predecessor map is well founded and the returned path is a grid path.
ValidPath ==
  /\ pc # "idle"
       => \A n \in DOMAIN came :
             /\ LinksReach(came, n, start, Cardinality(DOMAIN came) - 1)
             /\ came[n] # None => IsGridMove(came[n], n, req.step)
  /\ (pc = "done" /\ result.ok)
       => \E c \in { result.coords } :
             /\ Len(c) >= 1
             /\ c[1] = <<start[2], start[1]>>
             /\ c[Len(c)] = <<goal[2], goal[1]>>
             /\ \A i \in 1..(Len(c) - 1) :
                   IsGridMove(<<c[i][2], c[i][1]>>, <<c[i + 1][2], c[i + 1][1]>>, req.step)
             /\ result.dist_nm = CoordsNm(c)

\* A node enters the predecessor map with a link to a node already in it.
LinkedToFinalized ==
  \A n \in DOMAIN came' :
     n \notin DOMAIN came \/ pc = "idle"
       => (came'[n] = None \/ (pc # "idle" /\ came'[n] \in DOMAIN came))

\* C8: following the predecessor links from any finalized node reaches the
\* start in finitely many steps (the map is acyclic, and a node's
\* predecessor was finalized before it); on success the returned sequence
\* begins at the snapped origin, ends at the snapped destination, its
\* consecutive pairs differ by one of the 8 grid moves after longitude
\* wrap, and the reported distance is the sum of the base distances of
\* those pairs, without the penalties.
C8_ValidGridPath == []ValidPath /\ [][LinkedToFinalized]_vars

\* A success over at least two edges whose cost g included a penalty that
\* the reported distance leaves out.
C8_Witness ==
  /\ pc = "done" /\ result.ok
  /\ Len(result.coords) >= 3
  /\ g > Nm(result.dist_nm)

\* C9: every grid node the search creates (the snapped start and goal, and
\* every neighbour pushed to the heap or kept in the best-cost or
\* predecessor map) has its longitude in [-180, 180), so no meridian is
\* held as two nodes.
C9_LongitudeHalfOpen ==
  /\ \A n \in CreatedNodes : -Deg(180) <= n[2] /\ n[2] < Deg(180)
  /\ \A n, m \in CreatedNodes :
        (n[1] = m[1] /\ (n[2] - m[2]) % Deg(360) = 0) => n = m

\* C10: in every search state every node in the heap, the best-cost map
\* and the predecessor map, the snapped start included, has its latitude
\* strictly inside (-89.5, 89.5).
C10_PoleExclusion ==
  \A n \in SearchNodes : -PoleLimit < n[1] /\ n[1] < PoleLimit

\* The part of C11 about termination: every pop takes an entry that a push
\* put in the heap, the start's or one of the at most 8 of an expanded
\* node, and a node is expanded once, so the pops are bounded over the
\* finite grid; and the loop runs only on a heap that is not empty.
PopsBounded ==
  pc # "idle"
    => /\ visited <= 1 + 8 * Cardinality(DOMAIN came)
       /\ visited + Cardinality(openq) <= 1 + 8 * Cardinality(DOMAIN came)
       /\ pc = "loop" => openq # {}

\* C11: the search stops only when the goal is finalized, the open set is
\* empty, or the number of finalized nodes (the entries of the predecessor
\* map) exceeds max_nodes; stale pops do not consume the budget, so a
\* budget stop never happens while the number of finalized nodes is still
\* <= max_nodes.
C11_StopsOnlyOnGoalEmptyOrBudget ==
  /\ pc = "done"
       => \/ goal \in DOMAIN came
          \/ openq = {}
          \/ Cardinality(DOMAIN came) > req.max_nodes
  /\ last = "budget" => Cardinality(DOMAIN came) > req.max_nodes

====
